---------------------------- MODULE Spec2Model ----------------------------
(***************************************************************************)
(* State-machine model of the GWAS protocol components:                    *)
(*   - gwas/utils.py            chromosome_to_int                          *)
(*   - gwas/score/command.py    GwasCommand.split_by_missing_values, run   *)
(*   - gwas/compression/pipe.py CompressedReader/Writer, the pickle cache  *)
(*   - gwas/plots/worker.py     create_dataframe_single_chr / _all_chr     *)
(* Each component has its own specification (SpecUtils, SpecRun, ...) over *)
(* the module's variables; the variables of the other components stay at   *)
(* their idle values.                                                      *)
(***************************************************************************)
EXTENDS Integers, Sequences, FiniteSets, TLC

VARIABLES
    \* ---- utils.chromosome_to_int, called on a pair of arguments
    cti_args,              \* the two arguments of the last two calls
    cti_results,           \* the outcome of each call
    \* ---- GwasCommand.run
    variable_collections,  \* self.variable_collections
    vcf_samples,           \* len(self.vcf_samples)
    vcf_by_chromosome,     \* the keys of self.vcf_by_chromosome
    chromosomes,           \* the chromosomes the for loop has still to visit
    chromosome,            \* the loop variable
    available_size,        \* self.sw.unallocated_size // itemsize
    queue,                 \* the local copy variable_collections
    chunk_size,            \* the local chunk_size
    current_chunk,         \* the local current_chunk
    chunks,                \* the local chunks
    run_pc,                \* position of run(): init, for, while, job, done, raised
    arguments_chromosome,  \* self.arguments.chromosome: None or the list of tokens given
    stale_statistics,      \* the chromosomes whose VCF statistics calc_mean will change
    run_events,            \* history: the calls run has made, in order
    run_exc,               \* the exception run has raised, "" when none
    \* ---- GwasCommand.split_by_missing_values
    phenotypes_finite,     \* np.isfinite(vc.phenotypes.to_numpy()): [sample][phenotype]
    split_result,          \* the outcome of split_by_missing_values
    \* ---- compression/pipe.py: one CompressedReader or CompressedWriter
    session,               \* the session object: its class, path suffix and handles
    session_pc,            \* new, body, exited, enter_raised
    open_handles,          \* the file objects the session opened that are still open
    child,                 \* the child process the session spawned
    executable_found,      \* shutil.which finds the (de)compression executable
    \* ---- compression/pipe.py: the pickle cache
    cache_files,           \* the cache directory: file path -> content
    cache_saved,           \* per key, the value of the last save that returned
    cache_call,            \* the last call of load_from_cache or save_to_cache
    zstd_on_path,          \* shutil.which("zstd") is not None
    \* ---- plots/worker.py: one call of create_dataframe_all_chr
    cpu_count,             \* the argument cpu_count
    mismatched,            \* the task positions whose score array and metadata differ in rows
    tasks,                 \* the list tasks
    chunk_state,           \* pool.map: each chunk of tasks: queued, running, done, failed
    chunk_results,         \* pool.map: the tables a worker has built for its chunk
    task_steps,            \* per task, the steps create_dataframe_single_chr has run
    task_calls,            \* per task, how often create_dataframe_single_chr was called
    map_value,             \* pool.map: the result list, one slot per task
    map_success,           \* pool.map: no chunk has failed
    final_df,              \* the combined table
    finished_out_of_order, \* history: a chunk finished before an earlier chunk had
    pool_pc,               \* new, mapping, returned, raised
    \* plots/cli.py: main
    cli_argv,              \* the command line: the values given for the options
    cli_args,              \* args, the parsed namespace
    roi_file_labels,       \* the labels in the region-of-interest file
    labels_list,           \* labels_list
    label,                 \* the loop variable of main
    cur_df,                \* cur_df
    output_directory,      \* the files in the output directory
    outputs_at_start,      \* history: the files in the output directory at the start
    cli_events,            \* history: the calls main has made, in order
    cli_pc                 \* start, loop, built, pickled, returned, raised

utilsVars == <<cti_args, cti_results>>
runVars == <<variable_collections, vcf_samples, vcf_by_chromosome, chromosomes, chromosome, available_size,
             queue, chunk_size, current_chunk, chunks, run_pc, arguments_chromosome,
             stale_statistics, run_events, run_exc>>
splitVars == <<phenotypes_finite, split_result>>
sessionVars == <<session, session_pc, open_handles, child, executable_found>>
cacheVars == <<cache_files, cache_saved, cache_call, zstd_on_path>>
poolVars == <<cpu_count, mismatched, tasks, chunk_state, chunk_results, task_steps,
              task_calls, map_value, map_success, final_df, finished_out_of_order,
              pool_pc>>
cliVars == <<cli_argv, cli_args, roi_file_labels, labels_list, label, cur_df,
             output_directory, outputs_at_start, cli_events, cli_pc>>
vars == <<utilsVars, runVars, splitVars, sessionVars, cacheVars, poolVars, cliVars>>

(***************************************************************************)
(* Bounds of the model.                                                    *)
(***************************************************************************)
MaxInt == 30             \* chromosome_to_int is tried on integers -MaxInt..MaxInt
MaxCollections == 3      \* length of self.variable_collections
MaxSamples == 2          \* len(self.vcf_samples); sample_count of a collection
MaxPhenotypes == 2       \* phenotype_count of a collection
MaxAvailable == 10       \* self.sw.unallocated_size // 8
MaxMatrixSamples == 3    \* samples of the phenotype matrix that is split
MaxMatrixPhenotypes == 3 \* phenotypes of the phenotype matrix that is split
MaxValue == 1            \* the integers 0..MaxValue are saved to the cache
MaxPool == 2             \* cpu_count of create_dataframe_all_chr
MaxChosen == 2           \* chromosomes given in arguments.chromosome
MaxLabels == 3           \* labels in the region-of-interest file
MaxMismatched == 1       \* consecutive chromosomes whose score array and metadata differ in rows

(***************************************************************************)
(* Python values and call outcomes.                                        *)
(***************************************************************************)
PyInt(n) == [type |-> "int", int |-> n]
PyStr(s) == [type |-> "str", str |-> s]
PyBool(b) == [type |-> "bool", bool |-> b]
PyFloat(n) == [type |-> "float", whole |-> n]
PyNone == [type |-> "NoneType"]
PyList(items) == [type |-> "list", items |-> items]

Return(v) == [kind |-> "return", value |-> v]
Raise(e) == [kind |-> "raise", exc |-> e]
NoCall == [kind |-> "nocall"]

\* isinstance(v, int): bool is a subclass of int
IsInstanceInt(v) == v.type \in {"int", "bool"}

\* the integer a value of type int or bool compares as
IntOf(v) == IF v.type = "int" THEN v.int ELSE IF v.bool THEN 1 ELSE 0

(***************************************************************************)
(* utils.py                                                                *)
(***************************************************************************)
chromosome_to_int_no_x(c) ==
    IF IsInstanceInt(c) THEN Return(c) ELSE Raise("ValueError")

chromosome_to_int(c) ==
    IF c = PyStr("X") THEN Return(PyInt(23))
    ELSE IF IsInstanceInt(c) THEN Return(c)
    ELSE Raise("ValueError")

\* utils.chromosomes_set
chromosomes_set == {PyInt(n) : n \in 1..22} \cup {PyStr("X")}

\* The arguments chromosome_to_int is tried on
PyValues ==
    {PyInt(n) : n \in (0 - MaxInt)..MaxInt}
        \cup {PyStr(s) : s \in {"X", "x", "Y", "MT", "1", "22", "23", "chrX", ""}}
        \cup {PyBool(b) : b \in BOOLEAN}
        \cup {PyFloat(n) : n \in {1, 22, 23}}
        \cup {PyNone}

UtilsIdle == cti_args = <<PyNone, PyNone>> /\ cti_results = <<NoCall, NoCall>>

\* two calls of chromosome_to_int, as a sort comparing two keys makes them
ChromosomeToIntCalls ==
    /\ cti_results = <<NoCall, NoCall>>
    /\ \E a \in PyValues :
          \E b \in chromosomes_set \cup {a} :
             /\ cti_args' = <<a, b>>
             /\ cti_results' = <<chromosome_to_int(a), chromosome_to_int(b)>>


(***************************************************************************)
(* score/command.py: GwasCommand.run                                       *)
(***************************************************************************)
\* sorted(seq, key=...) and list.sort(key=...): Python's sort is stable.
\* keys[i] is the key of seq[i].
StableSortByKeys(seq, keys) ==
    LET n == Len(seq)
        before(i) == {j \in 1..n : keys[j] < keys[i] \/ (keys[j] = keys[i] /\ j < i)}
    IN  [p \in 1..n |-> seq[CHOOSE i \in 1..n : Cardinality(before(i)) + 1 = p]]

\* variable_collections.sort(key=lambda vc: -vc.phenotype_count)
SortByPhenotypeCount(seq) ==
    StableSortByKeys(seq, [i \in 1..Len(seq) |-> 0 - seq[i].phenotype_count])

\* vc.name = f"variableCollection-{i + 1:02d}": the name is kept as its ordinal
SetNames(seq) == [i \in 1..Len(seq) |-> [seq[i] EXCEPT !.name = i]]

\* a sort that leaves the list in the order given
SortChromosomesNot(seq) == seq

\* sorted(self.vcf_by_chromosome.keys(), key=chromosome_to_int)
SortChromosomes(seq) ==
    StableSortByKeys(seq, [i \in 1..Len(seq) |-> IntOf(chromosome_to_int(seq[i]).value)])

\* a sequence holding the elements of a set of chromosomes in some order
RECURSIVE SeqOfSet(_)
SeqOfSet(S) ==
    IF S = {} THEN <<>>
    ELSE LET x == CHOOSE y \in S : TRUE IN <<x>> \o SeqOfSet(S \ {x})

\* The chromosomes a VCF file can be loaded for in the model
LoadableChromosomes == {PyInt(1), PyInt(2), PyStr("X")}

\* a variable collection as run reads it: its name and its two counts
Collections(n_samples) ==
    [name : {0}, sample_count : 1..n_samples, phenotype_count : 1..MaxPhenotypes]

\* Predicted memory use of one collection (command.py lines 225-226)
PredictedSize(n_samples, vc) ==
    n_samples * vc.sample_count + 2 * vc.sample_count * vc.phenotype_count

RECURSIVE SumSizes(_, _)
SumSizes(n_samples, seq) ==
    IF seq = <<>> THEN 0
    ELSE PredictedSize(n_samples, Head(seq)) + SumSizes(n_samples, Tail(seq))

\* list.pop(0), which takes from the front
PopFront(seq) == [item |-> Head(seq), rest |-> Tail(seq)]

\* a pop that takes one element and loses the one before it
PopLosesOne(seq) == [item |-> seq[Len(seq)], rest |-> SubSeq(seq, 1, Len(seq) - 2)]

\* list.pop(): removes and returns the LAST element
Pop(seq) == [item |-> seq[Len(seq)], rest |-> SubSeq(seq, 1, Len(seq) - 1)]

RunIdle ==
    /\ variable_collections = <<>>
    /\ vcf_samples = 0
    /\ vcf_by_chromosome = {}
    /\ chromosomes = <<>>
    /\ chromosome = PyNone
    /\ available_size = 0
    /\ queue = <<>>
    /\ chunk_size = 0
    /\ current_chunk = <<>>
    /\ chunks = <<>>
    /\ run_pc = "idle"
    /\ arguments_chromosome = PyNone
    /\ stale_statistics = {}
    /\ run_events = <<>>
    /\ run_exc = ""

\* The command after __post_init__: the collections are sorted and named
\* (split_by_missing_values, lines 143-148), the VCF files are loaded.
RunInit ==
    /\ vcf_samples \in 1..MaxSamples
    /\ \E n \in 0..MaxCollections :
          \E raw \in [1..n -> Collections(vcf_samples)] :
             variable_collections = SetNames(SortByPhenotypeCount(raw))
    /\ vcf_by_chromosome \in (SUBSET LoadableChromosomes) \ {{}}
    /\ chromosomes = <<>>
    /\ chromosome = PyNone
    /\ available_size = 0
    /\ queue = <<>>
    /\ chunk_size = 0
    /\ current_chunk = <<>>
    /\ chunks = <<>>
    /\ run_pc = "init"
    /\ arguments_chromosome = PyNone
    /\ stale_statistics = {}
    /\ run_events = <<>>
    /\ run_exc = ""

\* the decimal numeral of a chromosome number
Numeral(n) == ToString(n)

\* parse_chromosome: a token of the command line becomes a chromosome
\* identifier, "X" or the integer of a numeral of 1..22; any other token is
\* invalid input
parse_chromosome(token) ==
    IF token = "X" THEN Return(PyStr("X"))
    ELSE IF \E n \in 1..22 : token = Numeral(n)
         THEN Return(PyInt(CHOOSE n \in 1..22 : token = Numeral(n)))
         ELSE Raise("ValueError")

\* an event of the history of run
RunEvent(op, c) == [op |-> op, chromosome |-> c]

\* run, lines 192-195: the loaded chromosomes, or the chromosomes parsed from
\* arguments.chromosome, in canonical order
RunEnter ==
    /\ run_pc = "init"
    /\ LET tokens == arguments_chromosome.items
           parsed == [i \in 1..Len(tokens) |-> parse_chromosome(tokens[i])]
       IN  IF arguments_chromosome = PyNone
           THEN /\ chromosomes' = SortChromosomes(SeqOfSet(vcf_by_chromosome))
                /\ run_pc' = "for"
                /\ UNCHANGED run_exc
           ELSE IF \E i \in 1..Len(parsed) : parsed[i].kind = "raise"
                THEN /\ chromosomes' = chromosomes
                     /\ run_pc' = "raised"
                     /\ run_exc' = "ValueError"
                ELSE /\ chromosomes' =
                           SortChromosomes([i \in 1..Len(parsed) |-> parsed[i].value])
                     /\ run_pc' = "for"
                     /\ UNCHANGED run_exc
    /\ UNCHANGED <<variable_collections, vcf_samples, vcf_by_chromosome, chromosome,
                   available_size, queue, chunk_size, current_chunk, chunks,
                   arguments_chromosome, stale_statistics, run_events>>

\* run, lines 196-220: the next chromosome; its VCF file (KeyError when none
\* is loaded for it), calc_mean and the save of the VCF cache when the
\* statistics changed, the cutoffs, the copy of the collections, the
\* available memory, the empty chunk
BeginChromosome ==
    /\ run_pc = "for"
    /\ chromosomes # <<>>
    /\ chromosome' = Head(chromosomes)
    /\ chromosomes' = Tail(chromosomes)
    /\ IF Head(chromosomes) \notin vcf_by_chromosome
       THEN /\ run_pc' = "raised"
            /\ run_exc' = "KeyError"
            /\ UNCHANGED <<queue, chunks, available_size, chunk_size, current_chunk,
                           stale_statistics, run_events>>
       ELSE /\ run_events' =
                 run_events
                 \o <<RunEvent(IF Head(chromosomes) \in stale_statistics
                               THEN "calc_mean: changed" ELSE "calc_mean: unchanged",
                               Head(chromosomes))>>
                 \o (IF Head(chromosomes) \in stale_statistics
                     THEN <<RunEvent("save_to_cache", Head(chromosomes))>> ELSE <<>>)
                 \o <<RunEvent("set_variants_from_cutoffs", Head(chromosomes))>>
            /\ stale_statistics' = stale_statistics \ {Head(chromosomes)}
            /\ queue' = variable_collections
            /\ chunks' = <<>>
            /\ \E unallocated \in 0..MaxAvailable : available_size' = unallocated
            /\ chunk_size' = 0
            /\ current_chunk' = <<>>
            /\ run_pc' = "while"
            /\ UNCHANGED run_exc
    /\ UNCHANGED <<variable_collections, vcf_samples, vcf_by_chromosome,
                   arguments_chromosome>>

\* run, lines 221-231: one turn of the while loop.  chunk_size / available_size
\* raises ZeroDivisionError when available_size is 0; chunk_size is not
\* reset when a chunk is closed.
WhileStep ==
    /\ run_pc = "while"
    /\ queue # <<>>
    /\ LET popped == Pop(queue)
           vc == popped.item
           size == chunk_size + PredictedSize(vcf_samples, vc)
           extended == Append(current_chunk, vc)
       IN  /\ queue' = popped.rest
           /\ chunk_size' = size
           /\ IF available_size = 0
              THEN /\ run_pc' = "raised"
                   /\ run_exc' = "ZeroDivisionError"
                   /\ current_chunk' = extended
                   /\ chunks' = chunks
              ELSE /\ run_pc' = "while"
                   /\ UNCHANGED run_exc
                   /\ IF 2 * size > available_size
                      THEN /\ chunks' = Append(chunks, extended)
                           /\ current_chunk' = <<>>
                      ELSE /\ chunks' = chunks
                           /\ current_chunk' = extended
    /\ UNCHANGED <<variable_collections, vcf_samples, vcf_by_chromosome,
                   chromosomes, chromosome, available_size, arguments_chromosome,
                   stale_statistics, run_events>>

\* run, lines 232-242: the last chunk is appended, the job collection is built
FinishChunks ==
    /\ run_pc = "while"
    /\ queue = <<>>
    /\ chunks' = Append(chunks, current_chunk)
    /\ run_events' = run_events \o <<RunEvent("chunks", chromosome),
                                      RunEvent("JobCollection", chromosome)>>
    /\ run_pc' = "job"
    /\ UNCHANGED <<variable_collections, vcf_samples, vcf_by_chromosome, chromosomes,
                   chromosome, available_size, queue, chunk_size, current_chunk,
                   arguments_chromosome, stale_statistics, run_exc>>

\* run, lines 243-244: job_collection.dump() and job_collection.run()
RunJobCollection ==
    /\ run_pc = "job"
    /\ run_events' = run_events \o <<RunEvent("dump", chromosome),
                                      RunEvent("run", chromosome)>>
    /\ run_pc' = "for"
    /\ UNCHANGED <<variable_collections, vcf_samples, vcf_by_chromosome, chromosomes,
                   chromosome, available_size, queue, chunk_size, current_chunk,
                   chunks, arguments_chromosome, stale_statistics, run_exc>>

\* run returns when the for loop has visited every chromosome
RunReturn ==
    /\ run_pc = "for"
    /\ chromosomes = <<>>
    /\ run_pc' = "done"
    /\ UNCHANGED <<variable_collections, vcf_samples, vcf_by_chromosome, chromosomes,
                   chromosome, available_size, queue, chunk_size, current_chunk,
                   chunks, arguments_chromosome, stale_statistics, run_events, run_exc>>

\* the lists of at most n tokens
RECURSIVE TokenLists(_)
TokenLists(n) ==
    IF n = 0 THEN {<<>>}
    ELSE TokenLists(n - 1)
         \cup {Append(tokens, t) : tokens \in TokenLists(n - 1), t \in {"1", "2", "X", "Y"}}

\* The command after __post_init__, for the order of the chromosomes: at
\* most one variable collection, any chromosomes given in
\* arguments.chromosome, any VCF files with statistics that will change
RunOrderInit ==
    /\ vcf_samples = 1
    /\ variable_collections \in
          {<<>>} \cup {SetNames(<<vc>>) : vc \in Collections(vcf_samples)}
    /\ vcf_by_chromosome \in (SUBSET LoadableChromosomes) \ {{}}
    /\ chromosomes = <<>>
    /\ chromosome = PyNone
    /\ available_size = 0
    /\ queue = <<>>
    /\ chunk_size = 0
    /\ current_chunk = <<>>
    /\ chunks = <<>>
    /\ run_pc = "init"
    /\ arguments_chromosome \in {PyNone} \cup {PyList(tokens) : tokens \in TokenLists(MaxChosen)}
    /\ stale_statistics \in SUBSET vcf_by_chromosome
    /\ run_events = <<>>
    /\ run_exc = ""

(***************************************************************************)
(* score/command.py: GwasCommand.split_by_missing_values                   *)
(* A phenotype matrix is [sample][phenotype] of BOOLEAN (is the value      *)
(* finite); samples and phenotype names are kept as their positions.       *)
(***************************************************************************)
SampleCount(M) == Len(M)
PhenotypeCount(M) == Len(M[1])

\* one column of the matrix: the missing-value pattern of a phenotype
Column(M, p) == [s \in 1..SampleCount(M) |-> M[s][p]]

RECURSIVE Pow2(_)
Pow2(n) == IF n = 0 THEN 1 ELSE 2 * Pow2(n - 1)

\* np.unique(..., axis=1) orders the columns lexicographically, False < True,
\* the first sample most significant: the position of a column in that order
RECURSIVE ColumnKey(_)
ColumnKey(col) ==
    IF col = <<>> THEN 0
    ELSE (IF Head(col) THEN Pow2(Len(col) - 1) ELSE 0) + ColumnKey(Tail(col))

\* np.unique(np.isfinite(...), axis=1, return_inverse=True), lines 71-78:
\* the distinct columns in order, and for each phenotype the index of its column
NpUniqueColumns(M) ==
    LET cols == {Column(M, p) : p \in 1..PhenotypeCount(M)}
        rank(c) == Cardinality({d \in cols : ColumnKey(d) < ColumnKey(c)}) + 1
        patterns == [i \in 1..Cardinality(cols) |-> CHOOSE c \in cols : rank(c) = i]
    IN  [missing_value_patterns |-> patterns,
         missing_value_pattern_indices |->
            [p \in 1..PhenotypeCount(M) |->
               CHOOSE i \in 1..Len(patterns) : patterns[i] = Column(M, p)]]

\* the positions of a list of flags that are set, in increasing order
Selected(flags) ==
    LET S == {k \in 1..Len(flags) : flags[k]}
    IN  [i \in 1..Cardinality(S) |->
           CHOOSE k \in S : Cardinality({l \in S : l < k}) + 1 = i]

\* lines 87-91: the samples that have data under the pattern
PatternSamples(pattern) == Selected(pattern)

\* lines 92-100: the phenotypes of pattern i, sorted
PatternPhenotypes(indices, i) == Selected([p \in 1..Len(indices) |-> indices[p] = i])

\* a loop that never skips a pattern
SkipPatternNever(pattern_samples) == FALSE

\* lines 101-106: a pattern without samples is skipped
SkipPattern(pattern_samples) == Len(pattern_samples) = 0

\* lines 112-115: the collection restricted to the pattern, and vc.is_finite
SubsetIsFinite(M, pattern_phenotypes, pattern_samples) ==
    \A k \in 1..Len(pattern_samples) : \A l \in 1..Len(pattern_phenotypes) :
       M[pattern_samples[k]][pattern_phenotypes[l]]

NewCollection(pattern_phenotypes, pattern_samples) ==
    [name |-> 0,
     samples |-> pattern_samples,
     phenotype_names |-> pattern_phenotypes,
     sample_count |-> Len(pattern_samples),
     phenotype_count |-> Len(pattern_phenotypes)]

\* the loop of lines 83-141 over patterns i..n, appending to acc
RECURSIVE SplitLoop(_, _, _, _)
SplitLoop(M, u, i, acc) ==
    IF i > Len(u.missing_value_patterns) THEN Return(acc)
    ELSE LET pattern_samples == PatternSamples(u.missing_value_patterns[i])
             pattern_phenotypes == PatternPhenotypes(u.missing_value_pattern_indices, i)
         IN  IF SkipPattern(pattern_samples) THEN SplitLoop(M, u, i + 1, acc)
             ELSE IF Len(pattern_phenotypes) = 0 THEN Raise("RuntimeError")
             ELSE IF ~SubsetIsFinite(M, pattern_phenotypes, pattern_samples)
                  THEN Raise("RuntimeError")
             ELSE SplitLoop(M, u, i + 1,
                            Append(acc, NewCollection(pattern_phenotypes, pattern_samples)))

\* split_by_missing_values, lines 65-150
split_by_missing_values(M) ==
    LET looped == SplitLoop(M, NpUniqueColumns(M), 1, <<>>)
    IN  IF looped.kind = "raise" THEN looped
        ELSE Return(SetNames(SortByPhenotypeCount(looped.value)))

\* the phenotype matrices of the model
Matrices ==
    UNION {[1..n -> [1..m -> BOOLEAN]] :
              n \in 1..MaxMatrixSamples, m \in 1..MaxMatrixPhenotypes}

SplitIdle == phenotypes_finite = <<>> /\ split_result = NoCall

SplitInit == phenotypes_finite \in Matrices /\ split_result = NoCall

SplitByMissingValues ==
    /\ split_result = NoCall
    /\ split_result' = split_by_missing_values(phenotypes_finite)
    /\ UNCHANGED phenotypes_finite


(***************************************************************************)
(* compression/pipe.py: CompressedReader and CompressedWriter              *)
(* A handle is "none" (None) or the name of the object it refers to:       *)
(* "file" (the path opened directly), "pipe" (the parent's end of the      *)
(* child's stdout or stdin), "dest" (the writer's destination, mode "wb"), *)
(* "process" (the Popen object).                                           *)
(***************************************************************************)
DirectSuffixes == {".vcf", ".txt"}

\* lines 27-33
decompress_command ==
    [x \in {".zst", ".lrz", ".gz", ".xz", ".bz2"} |->
        CASE x = ".zst" -> <<"zstd", "--long=31", "-c", "-d">>
          [] x = ".lrz" -> <<"lrzcat", "--quiet">>
          [] x = ".gz" -> <<"bgzip", "-c", "-d">>
          [] x = ".xz" -> <<"xzcat">>
          [] x = ".bz2" -> <<"bzip2", "-c", "-d">>]

\* lines 93-99
compress_command ==
    [x \in {".zst", ".lrz", ".gz", ".xz", ".bz2"} |->
        CASE x = ".zst" -> <<"zstd", "-B0", "-T0", "-11">>
          [] x = ".lrz" -> <<"lrzip">>
          [] x = ".gz" -> <<"bgzip">>
          [] x = ".xz" -> <<"xz">>
          [] x = ".bz2" -> <<"bzip2", "-c">>]

\* the path suffixes sessions are opened on in the model
Suffixes == DirectSuffixes \cup DOMAIN decompress_command \cup {".zip"}

NoChild == [state |-> "none"]

\* Popen(...): lines 38-47 and 104-113
Popen(command, stdin, stdout, is_text) ==
    [state |-> "running", command |-> command, stdin |-> stdin, stdout |-> stdout,
     stderr |-> "DEVNULL", text |-> is_text, bufsize |-> IF is_text THEN 1 ELSE 0 - 1]

\* CompressedReader.__init__ / CompressedWriter.__init__
NewSession(cls, suffix, is_text) ==
    [cls |-> cls, suffix |-> suffix, is_text |-> is_text,
     process_handle |-> "none", file_handle |-> "none",
     input_file_handle |-> "none", output_file_handle |-> "none"]

SessionIdle ==
    /\ session = NewSession("none", "", TRUE)
    /\ session_pc = "idle"
    /\ open_handles = {}
    /\ child = NoChild
    /\ executable_found = TRUE

SessionInit ==
    /\ \E cls \in {"reader", "writer"}, suffix \in Suffixes, is_text \in BOOLEAN :
          session = NewSession(cls, suffix, is_text)
    /\ session_pc = "new"
    /\ open_handles = {}
    /\ child = NoChild
    /\ executable_found \in BOOLEAN

\* CompressedReader.__enter__, lines 22-53.  Popen with stdout=PIPE always
\* provides the stream, so the IOError of line 50 is not raised.
ReaderEnter ==
    /\ session_pc = "new"
    /\ session.cls = "reader"
    /\ IF session.suffix \in DirectSuffixes
       THEN /\ session' = [session EXCEPT !.file_handle = "file"]
            /\ open_handles' = open_handles \cup {"file"}
            /\ child' = child
            /\ session_pc' = "body"
       ELSE IF session.suffix \notin DOMAIN decompress_command   \* KeyError
       THEN /\ session_pc' = "enter_raised"
            /\ UNCHANGED <<session, open_handles, child>>
       ELSE IF ~executable_found                                  \* ValueError
       THEN /\ session_pc' = "enter_raised"
            /\ UNCHANGED <<session, open_handles, child>>
       ELSE /\ child' = Popen(decompress_command[session.suffix], "DEVNULL", "PIPE",
                               session.is_text)
            /\ open_handles' = open_handles \cup {"pipe"}
            /\ session' = [session EXCEPT !.process_handle = "process",
                                          !.file_handle = "pipe"]
            /\ session_pc' = "body"
    /\ UNCHANGED executable_found

\* CompressedWriter.__enter__, lines 86-119: the destination is opened in
\* mode "wb" before the command is looked up and the executable resolved.
WriterEnter ==
    /\ session_pc = "new"
    /\ session.cls = "writer"
    /\ IF session.suffix \in DirectSuffixes
       THEN /\ session' = [session EXCEPT !.input_file_handle = "file"]
            /\ open_handles' = open_handles \cup {"file"}
            /\ child' = child
            /\ session_pc' = "body"
       ELSE IF session.suffix \notin DOMAIN compress_command     \* KeyError
       THEN /\ session' = [session EXCEPT !.output_file_handle = "dest"]
            /\ open_handles' = open_handles \cup {"dest"}
            /\ child' = child
            /\ session_pc' = "enter_raised"
       ELSE IF ~executable_found                                  \* ValueError
       THEN /\ session' = [session EXCEPT !.output_file_handle = "dest"]
            /\ open_handles' = open_handles \cup {"dest"}
            /\ child' = child
            /\ session_pc' = "enter_raised"
       ELSE /\ child' = Popen(compress_command[session.suffix], "PIPE", "dest",
                               session.is_text)
            /\ open_handles' = open_handles \cup {"dest", "pipe"}
            /\ session' = [session EXCEPT !.output_file_handle = "dest",
                                          !.process_handle = "process",
                                          !.input_file_handle = "pipe"]
            /\ session_pc' = "body"
    /\ UNCHANGED executable_found

\* Popen.__exit__: the pipes of the child are closed and the child is waited for
PopenExit(handles) == handles \ {"pipe"}

\* CompressedReader.__exit__, lines 55-61, run when the body of the with
\* statement returns or raises
ReaderExit ==
    /\ session_pc = "body"
    /\ session.cls = "reader"
    /\ \E body_raised \in BOOLEAN :
          /\ IF session.process_handle # "none"
             THEN /\ open_handles' = PopenExit(open_handles)
                  /\ child' = [child EXCEPT !.state = "waited"]
             ELSE /\ open_handles' =
                        IF session.file_handle # "none"
                        THEN open_handles \ {session.file_handle} ELSE open_handles
                  /\ child' = child
          /\ session' = [session EXCEPT !.process_handle = "none",
                                        !.file_handle = "none"]
          /\ session_pc' = IF body_raised THEN "exited_raised" ELSE "exited"
    /\ UNCHANGED executable_found

\* CompressedWriter.__exit__, lines 121-128.  output_file_handle is set to
\* None without close(): the destination is closed when the file object is
\* finalized, at once under reference counting or at a later collection.
WriterExit ==
    /\ session_pc = "body"
    /\ session.cls = "writer"
    /\ \E body_raised \in BOOLEAN, finalized_at_once \in BOOLEAN :
          /\ LET closed == IF session.process_handle # "none"
                           THEN PopenExit(open_handles)
                           ELSE IF session.input_file_handle # "none"
                           THEN open_handles \ {session.input_file_handle}
                           ELSE open_handles
             IN  open_handles' = IF finalized_at_once THEN closed \ {"dest"} ELSE closed
          /\ child' = IF session.process_handle # "none"
                      THEN [child EXCEPT !.state = "waited"] ELSE child
          /\ session' = [session EXCEPT !.process_handle = "none",
                                        !.input_file_handle = "none",
                                        !.output_file_handle = "none"]
          /\ session_pc' = IF body_raised THEN "exited_raised" ELSE "exited"
    /\ UNCHANGED executable_found

\* The garbage collector finalizes the destination file object once the
\* session no longer refers to it, or once the session whose __enter__
\* raised is itself collected.
CollectGarbage ==
    /\ session_pc \in {"exited", "exited_raised", "enter_raised"}
    /\ "dest" \in open_handles
    /\ open_handles' = open_handles \ {"dest"}
    /\ session_pc' = IF session_pc = "enter_raised" THEN "collected" ELSE session_pc
    /\ UNCHANGED <<session, child, executable_found>>


(***************************************************************************)
(* compression/pipe.py: load_from_cache and save_to_cache                  *)
(* File contents and streams are sequences of bytes.                       *)
(***************************************************************************)
\* pickle opcodes and the zstd frame
OpProto == 128
OpBinInt1 == 75
OpNone == 78
OpStop == 46
PickleProtocol == 4
HighestProtocol == 5
ZstdMagic == 40
GarbageByte == 255

\* The values saved in the model
CacheValues == {PyInt(n) : n \in 0..MaxValue} \cup {PyNone}

CacheKeys == {"vcf", "tri"}

\* pickle.dump(value, file_handle), line 158
PickleDump(value) ==
    <<OpProto, PickleProtocol>>
        \o (IF value = PyNone THEN <<OpNone>> ELSE <<OpBinInt1, value.int>>)
        \o <<OpStop>>

\* pickle.load(file_handle), line 150: the unpickling machine reading the
\* stream from position pos with the given stack.  Running out of input at
\* an opcode is EOFError, inside an argument UnpicklingError.
RECURSIVE Unpickle(_, _, _)
Unpickle(bytes, pos, stack) ==
    IF pos > Len(bytes) THEN Raise("EOFError")
    ELSE LET op == bytes[pos] IN
         IF op = OpProto
         THEN IF pos + 1 > Len(bytes) THEN Raise("UnpicklingError")
              ELSE IF bytes[pos + 1] > HighestProtocol THEN Raise("ValueError")
              ELSE Unpickle(bytes, pos + 2, stack)
         ELSE IF op = OpBinInt1
         THEN IF pos + 1 > Len(bytes) THEN Raise("UnpicklingError")
              ELSE Unpickle(bytes, pos + 2, Append(stack, PyInt(bytes[pos + 1])))
         ELSE IF op = OpNone
         THEN Unpickle(bytes, pos + 1, Append(stack, PyNone))
         ELSE IF op = OpStop
         THEN IF stack = <<>> THEN Raise("UnpicklingError")
              ELSE Return(stack[Len(stack)])
         ELSE Raise("UnpicklingError")

PickleLoad(bytes) == Unpickle(bytes, 1, <<>>)

RECURSIVE SumBytes(_)
SumBytes(bytes) == IF bytes = <<>> THEN 0 ELSE Head(bytes) + SumBytes(Tail(bytes))

\* what the zstd child of the writer puts into the destination (line 94):
\* a frame of magic number, content size, one block, content checksum
ZstdCompress(bytes) == <<ZstdMagic, Len(bytes)>> \o bytes \o <<SumBytes(bytes) % 251>>

\* what the zstd child of the reader puts on its stdout (line 28): the
\* block once it is complete; nothing for a bad header or a truncated
\* block.  A bad checksum is reported on stderr (DEVNULL) after the block
\* has been written; the exit status is not read.
ZstdDecompress(bytes) ==
    IF Len(bytes) < 2 \/ bytes[1] # ZstdMagic THEN <<>>
    ELSE IF Len(bytes) < 2 + bytes[2] THEN <<>>
    ELSE SubSeq(bytes, 3, 2 + bytes[2])

NoFile == [exists |-> FALSE, bytes |-> <<>>]
File(bytes) == [exists |-> TRUE, bytes |-> bytes]

\* every key saved to one file
CachePathShared(key) == "cache.zst"

\* cache_path / f"{key}.zst", lines 145 and 157
CachePath(key) == key \o ".zst"

CachePaths == {CachePath(k) : k \in CacheKeys}

\* load_from_cache, lines 144-153: only pickle.UnpicklingError is caught
load_from_cache(files, key) ==
    LET file_path == CachePath(key) IN
    IF ~files[file_path].exists THEN [outcome |-> Return(PyNone), warned |-> FALSE]
    ELSE IF ~zstd_on_path THEN [outcome |-> Raise("ValueError"), warned |-> FALSE]
    ELSE LET loaded == PickleLoad(ZstdDecompress(files[file_path].bytes)) IN
         IF loaded = Raise("UnpicklingError")
         THEN [outcome |-> Return(PyNone), warned |-> TRUE]
         ELSE [outcome |-> loaded, warned |-> FALSE]

NoSave == [known |-> FALSE]
Saved(value) == [known |-> TRUE, value |-> value]

CacheIdle ==
    /\ cache_files = [f \in {} |-> NoFile]
    /\ cache_saved = [k \in {} |-> NoSave]
    /\ cache_call = [op |-> "none"]
    /\ zstd_on_path = TRUE

CacheInit ==
    /\ cache_files = [f \in CachePaths |-> NoFile]
    /\ cache_saved = [k \in CacheKeys |-> NoSave]
    /\ cache_call = [op |-> "none"]
    /\ zstd_on_path \in BOOLEAN

\* save_to_cache, lines 156-158, through CompressedBytesWriter: the
\* destination is opened "wb" (and so emptied) before zstd is resolved
SaveToCache ==
    \E key \in CacheKeys, value \in CacheValues :
       /\ IF zstd_on_path
          THEN /\ cache_files' = [cache_files EXCEPT
                                     ![CachePath(key)] = File(ZstdCompress(PickleDump(value)))]
               /\ cache_saved' = [cache_saved EXCEPT ![key] = Saved(value)]
               /\ cache_call' = [op |-> "save", key |-> key, outcome |-> Return(PyNone),
                                 warned |-> FALSE]
          ELSE /\ cache_files' = [cache_files EXCEPT ![CachePath(key)] = File(<<>>)]
               /\ cache_saved' = cache_saved
               /\ cache_call' = [op |-> "save", key |-> key, outcome |-> Raise("ValueError"),
                                 warned |-> FALSE]
       /\ UNCHANGED zstd_on_path

\* load_from_cache, lines 144-153
LoadFromCache ==
    \E key \in CacheKeys :
       /\ cache_call' = [op |-> "load", key |-> key] @@ load_from_cache(cache_files, key)
       /\ UNCHANGED <<cache_files, cache_saved, zstd_on_path>>

\* the bytes of an entry damaged on disk: cut short, or one byte overwritten
Damaged(bytes) ==
    {SubSeq(bytes, 1, n) : n \in 0..(Len(bytes) - 1)}
        \cup {[bytes EXCEPT ![i] = GarbageByte] : i \in 1..Len(bytes)}

\* The environment corrupts an entry that a save has written
CorruptEntry ==
    \E key \in CacheKeys :
       /\ cache_saved[key].known
       /\ \E bytes \in Damaged(cache_files[CachePath(key)].bytes) :
             cache_files' = [cache_files EXCEPT ![CachePath(key)] = File(bytes)]
       /\ cache_saved' = [cache_saved EXCEPT ![key] = NoSave]
       /\ cache_call' = [op |-> "corrupt", key |-> key]
       /\ UNCHANGED zstd_on_path


(***************************************************************************)
(* plots/worker.py                                                         *)
(* A table (DataFrame) is a sequence of row blocks: the chromosome whose   *)
(* files the rows were read from and the number of rows.                   *)
(***************************************************************************)
\* CHROMOSOMES = list(range(1, 23)) + ["X"], line 84
CHROMOSOMES == [i \in 1..23 |-> IF i <= 22 THEN PyInt(i) ELSE PyStr("X")]

\* f"chr{chromosome}": the file name part of a chromosome
ChrName(c) == IF c.type = "str" THEN c.str ELSE ToString(c.int)

\* lines 85-92: the task of each chromosome
BuildTasks(phenotype_label) ==
    [i \in 1..Len(CHROMOSOMES) |->
        [score_path |-> <<"chr", ChrName(CHROMOSOMES[i]), ".score.b2array">>,
         axis_metadata_path |->
            <<"chr", ChrName(CHROMOSOMES[i]), ".score.axis-metadata.pkl.zst">>,
         phenotype_label |-> phenotype_label,
         position |-> i]]

\* len(metadata.index) of the metadata file of the task at position i: the
\* chromosomes have distinct row counts
MetadataRows(i) == i

\* b2_array.shape[0] of the score file of the task at position i
ScoreRows(i) == IF i \in mismatched THEN MetadataRows(i) + 1 ELSE MetadataRows(i)

NoTable == <<>>

\* the table built from the files of the task at position i, lines 66-73
ChrTable(i) == <<[chromosome |-> CHROMOSOMES[i], rows |-> MetadataRows(i)]>>

\* a per-chromosome step that checks the row counts only after the p-values
create_dataframe_single_chr_late_check(task) ==
    LET i == task.position IN
    IF ScoreRows(i) # MetadataRows(i)
    THEN [outcome |-> Raise("ValueError"),
          steps |-> <<"load_metadata", "blosc2.open", "find_phenotype_index",
                      "chi2_pvalue", "check_rows">>]
    ELSE [outcome |-> Return(ChrTable(i)),
          steps |-> <<"load_metadata", "blosc2.open", "find_phenotype_index",
                      "chi2_pvalue", "check_rows", "DataFrame">>]

\* create_dataframe_single_chr, lines 12-73
create_dataframe_single_chr(task) ==
    LET i == task.position IN
    IF ScoreRows(i) # MetadataRows(i)
    THEN [outcome |-> Raise("ValueError"),
          steps |-> <<"load_metadata", "blosc2.open", "check_rows">>]
    ELSE [outcome |-> Return(ChrTable(i)),
          steps |-> <<"load_metadata", "blosc2.open", "check_rows",
                      "find_phenotype_index", "chi2_pvalue", "DataFrame">>]

\* pool.map splits the tasks into chunks of this size:
\* chunksize, extra = divmod(len(tasks), processes * 4); if extra: chunksize += 1
ChunkSize(n, processes) ==
    (n \div (processes * 4)) + (IF n % (processes * 4) # 0 THEN 1 ELSE 0)

NumChunks(n, processes) ==
    LET cs == ChunkSize(n, processes) IN (n \div cs) + (IF n % cs # 0 THEN 1 ELSE 0)

\* the task positions of chunk c
ChunkFirst(c) == (c - 1) * ChunkSize(Len(tasks), cpu_count) + 1
ChunkLast(c) ==
    IF c * ChunkSize(Len(tasks), cpu_count) < Len(tasks)
    THEN c * ChunkSize(Len(tasks), cpu_count) ELSE Len(tasks)

\* a result list filled in the order in which the chunks finish
StoreChunkOnArrival(value, c, results) ==
    LET free == {k \in 1..Len(value) : value[k] = NoTable}
        first == CHOOSE k \in free : \A l \in free : k <= l
    IN  [k \in 1..Len(value) |->
           IF k >= first /\ k < first + Len(results)
           THEN results[k - first + 1] ELSE value[k]]

\* pool.map (line 96) puts the results of chunk c at the positions of its tasks
StoreChunk(value, c, results) ==
    [k \in 1..Len(value) |->
       IF k >= ChunkFirst(c) /\ k <= ChunkLast(c)
       THEN results[k - ChunkFirst(c) + 1] ELSE value[k]]

\* pd.concat(dfs), line 104
RECURSIVE Concat(_)
Concat(dfs) == IF dfs = <<>> THEN <<>> ELSE Head(dfs) \o Concat(Tail(dfs))

\* the runs of at most k consecutive task positions
PositionSets(k) ==
    {{i \in 1..Len(CHROMOSOMES) : first <= i /\ i < first + n} :
        first \in 1..Len(CHROMOSOMES), n \in 0..k}

PoolIdle ==
    /\ cpu_count = 0
    /\ mismatched = {}
    /\ tasks = <<>>
    /\ chunk_state = <<>>
    /\ chunk_results = <<>>
    /\ task_steps = <<>>
    /\ task_calls = <<>>
    /\ map_value = <<>>
    /\ map_success = TRUE
    /\ final_df = NoTable
    /\ finished_out_of_order = FALSE
    /\ pool_pc = "idle"

PoolInit ==
    /\ cpu_count \in 0..MaxPool
    /\ mismatched \in PositionSets(MaxMismatched)
    /\ tasks = <<>>
    /\ chunk_state = <<>>
    /\ chunk_results = <<>>
    /\ task_steps = <<>>
    /\ task_calls = <<>>
    /\ map_value = <<>>
    /\ map_success = TRUE
    /\ final_df = NoTable
    /\ finished_out_of_order = FALSE
    /\ pool_pc = "new"

\* create_dataframe_all_chr, lines 84-96: the tasks are built, the pool is
\* made (ValueError for fewer than one process) and pool.map queues the chunks
PoolMapStart ==
    /\ pool_pc = "new"
    /\ tasks' = BuildTasks("label")
    /\ IF cpu_count < 1
       THEN /\ pool_pc' = "raised"
            /\ UNCHANGED <<chunk_state, chunk_results, task_steps, task_calls, map_value>>
       ELSE /\ pool_pc' = "mapping"
            /\ chunk_state' = [c \in 1..NumChunks(Len(tasks'), cpu_count) |-> "queued"]
            /\ chunk_results' = [c \in 1..NumChunks(Len(tasks'), cpu_count) |-> <<>>]
            /\ task_steps' = [i \in 1..Len(tasks') |-> <<>>]
            /\ task_calls' = [i \in 1..Len(tasks') |-> 0]
            /\ map_value' = [i \in 1..Len(tasks') |-> NoTable]
    /\ UNCHANGED <<cpu_count, mismatched, map_success, final_df, finished_out_of_order>>

\* an idle worker of the pool takes the next chunk from the task queue
WorkerTakesChunk ==
    /\ pool_pc = "mapping"
    /\ Cardinality({c \in 1..Len(chunk_state) : chunk_state[c] = "running"}) < cpu_count
    /\ \E c \in 1..Len(chunk_state) :
          /\ chunk_state[c] = "queued"
          /\ \A d \in 1..(c - 1) : chunk_state[d] # "queued"
          /\ chunk_state' = [chunk_state EXCEPT ![c] = "running"]
    /\ UNCHANGED <<cpu_count, mismatched, tasks, chunk_results, task_steps, task_calls,
                   map_value, map_success, final_df, finished_out_of_order, pool_pc>>

\* mapstar, the function a worker applies to a chunk: list(map(func, chunk))
\* calls create_dataframe_single_chr on the tasks from position i to position
\* last in turn and stops at the first exception
RECURSIVE mapstar(_, _)
mapstar(i, last) ==
    IF i > last
    THEN [results |-> <<>>, raised |-> FALSE, called |-> {}]
    ELSE LET call == create_dataframe_single_chr(tasks[i]) IN
         IF call.outcome.kind = "raise"
         THEN [results |-> <<>>, raised |-> TRUE, called |-> {i}]
         ELSE LET rest == mapstar(i + 1, last)
              IN  [results |-> <<call.outcome.value>> \o rest.results,
                   raised |-> rest.raised,
                   called |-> {i} \cup rest.called]

\* a worker runs its chunk: an exception fails the chunk, otherwise the pool
\* stores the results of the chunk in the result list of the map
WorkerRunsChunk ==
    /\ pool_pc = "mapping"
    /\ \E c \in 1..Len(chunk_state) :
          /\ chunk_state[c] = "running"
          /\ \E run \in {mapstar(ChunkFirst(c), ChunkLast(c))} :
                 /\ task_steps' = [i \in 1..Len(tasks) |->
                                     IF i \in run.called
                                     THEN create_dataframe_single_chr(tasks[i]).steps
                                     ELSE task_steps[i]]
                 /\ task_calls' = [i \in 1..Len(tasks) |->
                                     IF i \in run.called
                                     THEN task_calls[i] + 1 ELSE task_calls[i]]
                 /\ IF run.raised
                    THEN /\ chunk_state' = [chunk_state EXCEPT ![c] = "failed"]
                         /\ map_success' = FALSE
                         /\ UNCHANGED <<chunk_results, map_value>>
                    ELSE /\ chunk_state' = [chunk_state EXCEPT ![c] = "done"]
                         /\ chunk_results' = [chunk_results EXCEPT ![c] = run.results]
                         /\ map_value' = IF map_success
                                         THEN StoreChunk(map_value, c, run.results)
                                         ELSE map_value
                         /\ UNCHANGED map_success
                 /\ finished_out_of_order' =
                       (\/ finished_out_of_order
                        \/ \E d \in 1..(c - 1) : chunk_state[d] = "running")
    /\ UNCHANGED <<cpu_count, mismatched, tasks, final_df, pool_pc>>

\* lines 96-105: pool.map returns once every chunk has finished, or raises
\* the exception of a failed chunk; the tables are concatenated
PoolMapJoin ==
    /\ pool_pc = "mapping"
    /\ \A c \in 1..Len(chunk_state) : chunk_state[c] \in {"done", "failed"}
    /\ IF map_success
       THEN /\ final_df' = Concat(map_value)
            /\ pool_pc' = "returned"
       ELSE /\ final_df' = final_df
            /\ pool_pc' = "raised"
    /\ UNCHANGED <<cpu_count, mismatched, tasks, chunk_state, chunk_results, task_steps,
                   task_calls, map_value, map_success, finished_out_of_order>>


(***************************************************************************)
(* plots/cli.py: main.                                                     *)
(***************************************************************************)
\* the values an option can be given on the command line; None: not given
OptionValues == {PyNone, PyStr(""), PyStr("False"), PyStr("True")}

\* bool(value) of a string or None
PyTruthy(v) == IF v.type = "str" THEN v.str # "" ELSE FALSE

\* parse_args, lines 17-52: --save_df has type=bool and default=False,
\* --csvroi_file has default=None
parse_args(argv) ==
    [csvroi_file |-> argv.csvroi_file,
     save_df |-> IF argv.save_df = PyNone THEN FALSE ELSE PyTruthy(argv.save_df)]

\* filter_rois(csv_path): the labels of the file, in the order of the file
filter_rois(n) == [i \in 1..n |-> <<"roi", i>>]

\* the output files generate_and_save_manhattan_plot writes for a label
PlotFile(l) == <<"plot", l>>

\* lines 83-88: output_directory / "integramoods_gwas_dfs" / filename
PickleFile(l) == <<"integramoods_gwas_dfs", "integramoods_gwas_", l, "_df.pkl">>

\* a resumability check that finds no file
check_existing_files_none(directory, l) == FALSE

\* check_existing_files(directory=output_directory, label=label), line 74
check_existing_files(directory, l) == PlotFile(l) \in directory

\* the combined table create_dataframe_all_chr returns for a label
CombinedTable(l) == [label |-> l, rows |-> Concat([i \in 1..Len(CHROMOSOMES) |-> ChrTable(i)])]

CliEvent(op, l) == [op |-> op, label |-> l]

CliIdle ==
    /\ cli_argv = PyNone
    /\ cli_args = PyNone
    /\ roi_file_labels = 0
    /\ labels_list = <<>>
    /\ label = 0
    /\ cur_df = PyNone
    /\ output_directory = {}
    /\ outputs_at_start = {}
    /\ cli_events = <<>>
    /\ cli_pc = "idle"

CliInit ==
    /\ cli_argv \in [csvroi_file : {PyNone, PyStr(""), PyStr("rois.csv")},
                      save_df : OptionValues]
    /\ cli_args = PyNone
    /\ roi_file_labels \in 0..MaxLabels
    /\ labels_list = <<>>
    /\ label = 0
    /\ cur_df = PyNone
    /\ output_directory \in SUBSET {PlotFile(l) : l \in 0..(MaxLabels - 1)}
    /\ outputs_at_start = output_directory
    /\ cli_events = <<>>
    /\ cli_pc = "start"

\* main, lines 56-67: the arguments are parsed and the labels are loaded when
\* a region-of-interest file is given
MainStart ==
    /\ cli_pc = "start"
    /\ cli_args' = parse_args(cli_argv)
    /\ labels_list' = IF PyTruthy(cli_args'.csvroi_file)
                      THEN filter_rois(roi_file_labels) ELSE <<>>
    /\ label' = 0
    /\ cli_pc' = "loop"
    /\ UNCHANGED <<cli_argv, roi_file_labels, cur_df, output_directory,
                   outputs_at_start, cli_events>>

\* lines 73-75: the output files of the label exist, continue
LabelSkipped ==
    /\ cli_pc = "loop"
    /\ label < Len(labels_list)
    /\ check_existing_files(output_directory, label)
    /\ label' = label + 1
    /\ UNCHANGED <<cli_argv, cli_args, roi_file_labels, labels_list, cur_df,
                   output_directory, outputs_at_start, cli_events, cli_pc>>

\* lines 76-81: create_dataframe_all_chr returns the combined table or raises
LabelBuilt ==
    /\ cli_pc = "loop"
    /\ label < Len(labels_list)
    /\ ~check_existing_files(output_directory, label)
    /\ cli_events' = Append(cli_events, CliEvent("create_dataframe_all_chr", label))
    /\ \E raised \in BOOLEAN :
          IF raised
          THEN cli_pc' = "raised" /\ UNCHANGED cur_df
          ELSE cli_pc' = "built" /\ cur_df' = CombinedTable(label)
    /\ UNCHANGED <<cli_argv, cli_args, roi_file_labels, labels_list, label,
                   output_directory, outputs_at_start>>

\* lines 82-89: the table is pickled when save_df is set
LabelPickled ==
    /\ cli_pc = "built"
    /\ cli_args.save_df
    /\ output_directory' = output_directory \cup {PickleFile(label)}
    /\ cli_events' = Append(cli_events, CliEvent("to_pickle", label))
    /\ cli_pc' = "pickled"
    /\ UNCHANGED <<cli_argv, cli_args, roi_file_labels, labels_list, label, cur_df,
                   outputs_at_start>>

\* lines 91-93: the plot of the label is generated and saved, and the loop
\* goes to the next label
LabelPlotted ==
    /\ \/ cli_pc = "pickled"
       \/ cli_pc = "built" /\ ~cli_args.save_df
    /\ output_directory' = output_directory \cup {PlotFile(label)}
    /\ cli_events' = Append(cli_events, CliEvent("generate_and_save_manhattan_plot", label))
    /\ label' = label + 1
    /\ cli_pc' = "loop"
    /\ UNCHANGED <<cli_argv, cli_args, roi_file_labels, labels_list, cur_df,
                   outputs_at_start>>

\* the loop of line 73 is exhausted and main returns
MainReturn ==
    /\ cli_pc = "loop"
    /\ label = Len(labels_list)
    /\ cli_pc' = "returned"
    /\ UNCHANGED <<cli_argv, cli_args, roi_file_labels, labels_list, label, cur_df,
                   output_directory, outputs_at_start, cli_events>>

(***************************************************************************)
(* Specifications                                                          *)
(***************************************************************************)
InitUtils == UtilsIdle /\ RunIdle /\ SplitIdle /\ SessionIdle /\ CacheIdle /\ PoolIdle /\ CliIdle
NextUtils ==
    ChromosomeToIntCalls /\ UNCHANGED <<runVars, splitVars, sessionVars, cacheVars, poolVars, cliVars>>
SpecUtils == InitUtils /\ [][NextUtils]_vars

InitRun == UtilsIdle /\ RunInit /\ SplitIdle /\ SessionIdle /\ CacheIdle /\ PoolIdle /\ CliIdle
NextRun ==
    \/ RunEnter /\ UNCHANGED <<utilsVars, splitVars, sessionVars, cacheVars, poolVars, cliVars>>
    \/ BeginChromosome /\ UNCHANGED <<utilsVars, splitVars, sessionVars, cacheVars, poolVars, cliVars>>
    \/ WhileStep /\ UNCHANGED <<utilsVars, splitVars, sessionVars, cacheVars, poolVars, cliVars>>
    \/ FinishChunks /\ UNCHANGED <<utilsVars, splitVars, sessionVars, cacheVars, poolVars, cliVars>>
    \/ RunJobCollection /\ UNCHANGED <<utilsVars, splitVars, sessionVars, cacheVars, poolVars, cliVars>>
    \/ RunReturn /\ UNCHANGED <<utilsVars, splitVars, sessionVars, cacheVars, poolVars, cliVars>>
SpecRun == InitRun /\ [][NextRun]_vars

InitRunOrder == UtilsIdle /\ RunOrderInit /\ SplitIdle /\ SessionIdle /\ CacheIdle /\ PoolIdle /\ CliIdle
SpecRunOrder == InitRunOrder /\ [][NextRun]_vars

InitSplit == UtilsIdle /\ RunIdle /\ SplitInit /\ SessionIdle /\ CacheIdle /\ PoolIdle /\ CliIdle
NextSplit ==
    SplitByMissingValues /\ UNCHANGED <<utilsVars, runVars, sessionVars, cacheVars, poolVars, cliVars>>
SpecSplit == InitSplit /\ [][NextSplit]_vars

InitSession == UtilsIdle /\ RunIdle /\ SplitIdle /\ SessionInit /\ CacheIdle /\ PoolIdle /\ CliIdle
NextSession ==
    \/ ReaderEnter /\ UNCHANGED <<utilsVars, runVars, splitVars, cacheVars, poolVars, cliVars>>
    \/ WriterEnter /\ UNCHANGED <<utilsVars, runVars, splitVars, cacheVars, poolVars, cliVars>>
    \/ ReaderExit /\ UNCHANGED <<utilsVars, runVars, splitVars, cacheVars, poolVars, cliVars>>
    \/ WriterExit /\ UNCHANGED <<utilsVars, runVars, splitVars, cacheVars, poolVars, cliVars>>
    \/ CollectGarbage /\ UNCHANGED <<utilsVars, runVars, splitVars, cacheVars, poolVars, cliVars>>
SpecSession == InitSession /\ [][NextSession]_vars

InitCache == UtilsIdle /\ RunIdle /\ SplitIdle /\ SessionIdle /\ CacheInit /\ PoolIdle /\ CliIdle
NextCache ==
    \/ SaveToCache /\ UNCHANGED <<utilsVars, runVars, splitVars, sessionVars, poolVars, cliVars>>
    \/ LoadFromCache /\ UNCHANGED <<utilsVars, runVars, splitVars, sessionVars, poolVars, cliVars>>
    \/ CorruptEntry /\ UNCHANGED <<utilsVars, runVars, splitVars, sessionVars, poolVars, cliVars>>
SpecCache == InitCache /\ [][NextCache]_vars

InitPool == UtilsIdle /\ RunIdle /\ SplitIdle /\ SessionIdle /\ CacheIdle /\ PoolInit /\ CliIdle
NextPool ==
    \/ PoolMapStart /\ UNCHANGED <<utilsVars, runVars, splitVars, sessionVars, cacheVars, cliVars>>
    \/ WorkerTakesChunk /\ UNCHANGED <<utilsVars, runVars, splitVars, sessionVars, cacheVars, cliVars>>
    \/ WorkerRunsChunk /\ UNCHANGED <<utilsVars, runVars, splitVars, sessionVars, cacheVars, cliVars>>
    \/ PoolMapJoin /\ UNCHANGED <<utilsVars, runVars, splitVars, sessionVars, cacheVars, cliVars>>
SpecPool == InitPool /\ [][NextPool]_vars

InitCli == UtilsIdle /\ RunIdle /\ SplitIdle /\ SessionIdle /\ CacheIdle /\ PoolIdle /\ CliInit
NextCli ==
    \/ MainStart /\ UNCHANGED <<utilsVars, runVars, splitVars, sessionVars, cacheVars, poolVars>>
    \/ LabelSkipped /\ UNCHANGED <<utilsVars, runVars, splitVars, sessionVars, cacheVars, poolVars>>
    \/ LabelBuilt /\ UNCHANGED <<utilsVars, runVars, splitVars, sessionVars, cacheVars, poolVars>>
    \/ LabelPickled /\ UNCHANGED <<utilsVars, runVars, splitVars, sessionVars, cacheVars, poolVars>>
    \/ LabelPlotted /\ UNCHANGED <<utilsVars, runVars, splitVars, sessionVars, cacheVars, poolVars>>
    \/ MainReturn /\ UNCHANGED <<utilsVars, runVars, splitVars, sessionVars, cacheVars, poolVars>>
SpecCli == InitCli /\ [][NextCli]_vars

(***************************************************************************)
(* Claims about utils.chromosome_to_int (SpecUtils)                        *)
(***************************************************************************)
\* a precedes b in the canonical chromosome order 1, 2, ..., 22, "X"
CanonicalBefore(a, b) ==
    /\ a \in chromosomes_set
    /\ b \in chromosomes_set
    /\ a.type = "int"
    /\ (b = PyStr("X") \/ (b.type = "int" /\ a.int < b.int))

\* what chromosome_to_int does to one argument
RankOutcomeOk(a, r) ==
    /\ (a = PyStr("X") => r = Return(PyInt(23)))
    /\ (IsInstanceInt(a) => r = Return(a))
    /\ (~IsInstanceInt(a) /\ a # PyStr("X") => r = Raise("ValueError"))

\* C10 (as amended): chromosome_to_int returns n for every integer n, the
\* integers 1..22 among them, and 23 for "X", so that
\* rank(1) < ... < rank(22) < rank("X"); every value that is neither an
\* integer nor the token "X" fails with ValueError; an integer outside 1..22
\* (and a bool) is not rejected: it is returned unchanged.
C10_ChromosomeRank ==
    cti_results # <<NoCall, NoCall>> =>
       /\ RankOutcomeOk(cti_args[1], cti_results[1])
       /\ RankOutcomeOk(cti_args[2], cti_results[2])
       /\ (CanonicalBefore(cti_args[1], cti_args[2]) =>
              /\ cti_results[1].kind = "return"
              /\ cti_results[2].kind = "return"
              /\ IntOf(cti_results[1].value) < IntOf(cti_results[2].value))

\* C10 witness: the ranks of 22 and "X" have been computed
C10_Witness ==
    /\ cti_args = <<PyInt(22), PyStr("X")>>
    /\ cti_results = <<Return(PyInt(22)), Return(PyInt(23))>>

\* C10 as stated: every value that is neither an integer 1..22 nor "X"
\* fails with an invalid-input error.
C10_InvalidIdentifierFails ==
    \A k \in 1..2 :
       (cti_results[k] # NoCall /\ cti_args[k] \notin chromosomes_set) =>
          cti_results[k].kind = "raise"

(***************************************************************************)
(* Claims about the chunking of GwasCommand.run (SpecRun)                  *)
(***************************************************************************)
\* the chunks of `chunks` that have been closed: all of them while the loop
\* runs, all but the last once the final chunk has been appended
IsClosedChunk(i) ==
    /\ i \in 1..Len(chunks)
    /\ (run_pc \in {"while", "raised"} \/ i < Len(chunks))

\* the chunks read front to back, each chunk front to back
RECURSIVE Flatten(_)
Flatten(seqs) == IF seqs = <<>> THEN <<>> ELSE Head(seqs) \o Flatten(Tail(seqs))

\* C1: every chunk closed before the final one is closed at the first
\* collection that makes the chunk's OWN accumulated predicted cost exceed
\* 50% of the available budget; no chunk is closed while its own cost is
\* at or below 50% of the budget.
C1_ClosedAtOwnHalfBudget ==
    \A i \in 1..Len(chunks) :
       IsClosedChunk(i) =>
          /\ chunks[i] # <<>>
          /\ 2 * SumSizes(vcf_samples, chunks[i]) > available_size
          /\ 2 * SumSizes(vcf_samples, SubSeq(chunks[i], 1, Len(chunks[i]) - 1))
                <= available_size

\* C2 (as amended): the collections are taken in the REVERSE of the order
\* self.variable_collections is sorted in (list.pop() takes the last
\* element): read front to back, the phenotype counts of the chunk list are
\* non-decreasing, and variableCollection-01 is the last collection taken,
\* the last member of the last non-empty chunk.
C2_TakenInReverseOrder ==
    run_pc = "job" =>
       LET taken == Flatten(chunks) IN
       /\ Len(taken) = Len(variable_collections)
       /\ \A i \in 1..Len(taken) : \A j \in i..Len(taken) :
             taken[i].phenotype_count <= taken[j].phenotype_count
       /\ (taken # <<>> => taken[Len(taken)].name = 1)
       /\ \A c \in 1..Len(chunks) :
             (chunks[c] # <<>> /\ \A d \in (c + 1)..Len(chunks) : chunks[d] = <<>>)
                => chunks[c][Len(chunks[c])].name = 1

\* C2 witness: collections of different phenotype counts have been
\* chunked into more than one non-empty chunk
C2_Witness ==
    /\ run_pc = "job"
    /\ Len(variable_collections) >= 2
    /\ variable_collections[1].phenotype_count
          > variable_collections[Len(variable_collections)].phenotype_count
    /\ Len(chunks) >= 2
    /\ chunks[1] # <<>>
    /\ chunks[2] # <<>>

\* C2 as stated: the phenotype counts are non-increasing through the chunk
\* list and variableCollection-01 is the first member of the first chunk.
C2_TakenInSortedOrder ==
    run_pc = "job" =>
       LET taken == Flatten(chunks) IN
       /\ \A i \in 1..Len(taken) : \A j \in i..Len(taken) :
             taken[i].phenotype_count >= taken[j].phenotype_count
       /\ (taken # <<>> => chunks[1] # <<>> /\ chunks[1][1].name = 1)

\* C3: for every budget, zero included, and collections whose predicted
\* costs sum to more than the budget, the chunking completes and yields
\* more than one chunk.
C3_MoreThanOneChunk ==
    (/\ run_pc \in {"while", "raised", "job"}
     /\ SumSizes(vcf_samples, variable_collections) > available_size)
        => /\ run_pc # "raised"
           /\ (run_pc = "job" => Len(chunks) > 1)

(***************************************************************************)
(* Claims about split_by_missing_values (SpecSplit)                        *)
(***************************************************************************)
\* the samples for which phenotype p is finite
FiniteSamples(M, p) == {s \in 1..SampleCount(M) : M[s][p]}

\* the elements of a sequence
Elements(seq) == {seq[i] : i \in 1..Len(seq)}

\* the places (collection, position) at which phenotype p is returned
PlacesOf(vcs, p) ==
    {<<c, k>> \in (1..Len(vcs)) \X (1..PhenotypeCount(phenotypes_finite)) :
        k <= Len(vcs[c].phenotype_names) /\ vcs[c].phenotype_names[k] = p}

\* C9: split_by_missing_values partitions the phenotypes by missing-value
\* pattern: it returns, and each phenotype that is finite for some sample is
\* in exactly one returned collection, whose sample set is exactly the
\* samples for which it is finite; no returned collection holds a missing
\* value; a phenotype finite for no sample is in no returned collection.
C9_PartitionByPattern ==
    split_result # NoCall =>
       /\ split_result.kind = "return"
       /\ LET M == phenotypes_finite
              vcs == split_result.value
          IN  /\ \A p \in 1..PhenotypeCount(M) :
                    IF FiniteSamples(M, p) = {}
                    THEN PlacesOf(vcs, p) = {}
                    ELSE /\ Cardinality(PlacesOf(vcs, p)) = 1
                         /\ \A pl \in PlacesOf(vcs, p) :
                               /\ Elements(vcs[pl[1]].samples) = FiniteSamples(M, p)
                               /\ Len(vcs[pl[1]].samples) = Cardinality(FiniteSamples(M, p))
              /\ \A c \in 1..Len(vcs) :
                    /\ vcs[c].phenotype_names # <<>>
                    /\ \A p \in Elements(vcs[c].phenotype_names) :
                          /\ p \in 1..PhenotypeCount(M)
                          /\ \A s \in Elements(vcs[c].samples) : M[s][p]

\* C9 witness: two phenotypes with different patterns and one that is
\* missing for every sample have been split into two collections
C9_Witness ==
    /\ split_result # NoCall
    /\ split_result.kind = "return"
    /\ SampleCount(phenotypes_finite) = 3
    /\ PhenotypeCount(phenotypes_finite) = 3
    /\ FiniteSamples(phenotypes_finite, 1) = {1, 2}
    /\ FiniteSamples(phenotypes_finite, 2) = {}
    /\ FiniteSamples(phenotypes_finite, 3) = {1, 3}
    /\ Len(split_result.value) = 2

(***************************************************************************)
(* Claims about the pickle cache (SpecCache)                               *)
(***************************************************************************)
\* C4: load_from_cache never lets a failure escape for a missing or corrupt
\* entry: with zstd available, a load of a missing entry returns None, and a
\* load of an entry whose bytes are damaged returns (None, with a warning,
\* when the content cannot be deserialized) rather than raising.
C4_LoadNeverRaises ==
    (cache_call.op = "load" /\ zstd_on_path) =>
       /\ cache_call.outcome.kind = "return"
       /\ (~cache_files[CachePath(cache_call.key)].exists =>
              cache_call.outcome = Return(PyNone))

\* C5: after save_to_cache(dir, key, value) has returned, load_from_cache(dir,
\* key) returns a value equal to the saved one; after any sequence of saves a
\* load of a key returns the value of the most recent save to that key,
\* whatever was saved to other keys.
C5_RoundTrip ==
    /\ (cache_call.op = "save" /\ cache_call.outcome.kind = "return") =>
          /\ cache_saved[cache_call.key].known
          /\ load_from_cache(cache_files, cache_call.key).outcome
                = Return(cache_saved[cache_call.key].value)
    /\ (cache_call.op = "load" /\ cache_saved[cache_call.key].known) =>
          cache_call.outcome = Return(cache_saved[cache_call.key].value)

\* C5 witness: a load of "vcf" returns the 1 saved to it after 0 has been
\* saved to "tri"
C5_Witness ==
    /\ cache_call.op = "load"
    /\ cache_call.key = "vcf"
    /\ cache_call.outcome = Return(PyInt(1))
    /\ cache_saved["vcf"] = Saved(PyInt(1))
    /\ cache_saved["tri"] = Saved(PyInt(0))

(***************************************************************************)
(* Claims about the compressed stream sessions (SpecSession)               *)
(***************************************************************************)
\* C6: once the scoped acquisition of a reader or writer has ended, whether
\* the body returned, the body raised or the acquisition itself failed, no
\* child of the session is left un-waited, no file handle the session
\* opened is left open, and the session's handles are cleared.
C6_SessionTornDown ==
    session_pc \in {"exited", "exited_raised", "enter_raised"} =>
       /\ child.state # "running"
       /\ open_handles = {}
       /\ session.process_handle = "none"
       /\ session.file_handle = "none"
       /\ session.input_file_handle = "none"
       /\ session.output_file_handle = "none"

(***************************************************************************)
(* Claims about create_dataframe_all_chr (SpecPool)                        *)
(***************************************************************************)
RECURSIVE RowCount(_)
RowCount(df) == IF df = <<>> THEN 0 ELSE Head(df).rows + RowCount(Tail(df))

RECURSIVE SumMetadataRows(_)
SumMetadataRows(n) == IF n = 0 THEN 0 ELSE MetadataRows(n) + SumMetadataRows(n - 1)

\* C7: create_dataframe_all_chr submits exactly 23 tasks, for 1..22 and then
\* "X"; for every pool size >= 1 and every interleaving of the workers each
\* result is kept at the position of its task, and the combined table is
\* the concatenation of the 23 tables in the order 1..22, "X", its row
\* count the sum of theirs.
C7_ConcatenatedInOrder ==
    /\ pool_pc \in {"mapping", "returned"} =>
          /\ Len(tasks) = 23
          /\ \A i \in 1..23 :
                /\ tasks[i].score_path = <<"chr", ChrName(CHROMOSOMES[i]), ".score.b2array">>
                /\ CHROMOSOMES[i] = (IF i = 23 THEN PyStr("X") ELSE PyInt(i))
                /\ map_value[i] \in {NoTable, ChrTable(i)}
    /\ pool_pc = "returned" =>
          /\ cpu_count >= 1
          /\ Len(final_df) = 23
          /\ \A i \in 1..23 :
                final_df[i] = [chromosome |-> CHROMOSOMES[i], rows |-> MetadataRows(i)]
          /\ RowCount(final_df) = SumMetadataRows(23)

\* C7 witness: with two workers, a later chunk has finished before an
\* earlier one, and the call has returned the combined table
C7_Witness ==
    /\ pool_pc = "returned"
    /\ cpu_count = 2
    /\ finished_out_of_order
    /\ Len(final_df) = 23

\* C8: a task whose score array and metadata differ in rows raises
\* ValueError before find_phenotype_index and chi2_pvalue and gives no
\* table; when a task has failed create_dataframe_all_chr raises and
\* returns no combined table, and no task is called twice.
C8_MismatchAborts ==
    pool_pc \in {"mapping", "returned", "raised"} /\ cpu_count >= 1 =>
       /\ \A i \in 1..Len(tasks) :
             /\ task_calls[i] <= 1
             /\ (task_calls[i] = 1 /\ i \in mismatched) =>
                   /\ task_steps[i] = <<"load_metadata", "blosc2.open", "check_rows">>
                   /\ map_value[i] = NoTable
                   /\ ~map_success
             /\ (task_calls[i] = 1 /\ i \notin mismatched) =>
                   task_steps[i][Len(task_steps[i])] = "DataFrame"
       /\ (~map_success => pool_pc # "returned" /\ final_df = NoTable)
       /\ (pool_pc = "raised" => ~map_success /\ final_df = NoTable)
       /\ (pool_pc = "returned" => mismatched = {})

\* C8 witness: the task of chromosome 12 has failed on the row counts, the
\* other chunks have run to their end, and the call has raised
C8_Witness ==
    /\ pool_pc = "raised"
    /\ cpu_count = 2
    /\ mismatched = {12}
    /\ task_calls[12] = 1
    /\ task_steps[12] = <<"load_metadata", "blosc2.open", "check_rows">>
    /\ task_calls[23] = 1
    /\ final_df = NoTable

(***************************************************************************)
(* Claims about the main loop of the plotting CLI (SpecCli)                *)
(***************************************************************************)
\* the calls main makes for a label whose output files do not exist
LabelCalls(l) ==
    <<CliEvent("create_dataframe_all_chr", l)>>
    \o (IF cli_args.save_df THEN <<CliEvent("to_pickle", l)>> ELSE <<>>)
    \o <<CliEvent("generate_and_save_manhattan_plot", l)>>

\* the calls main makes for the labels 0..(upto - 1), in list order
RECURSIVE CallsUpTo(_)
CallsUpTo(upto) ==
    IF upto = 0 THEN <<>>
    ELSE CallsUpTo(upto - 1)
         \o (IF PlotFile(upto - 1) \in outputs_at_start THEN <<>> ELSE LabelCalls(upto - 1))

CanonicalRank(c) == IF c = PyStr("X") THEN 23 ELSE c.int

\* the positions of the history at which run begins a chromosome
BlockStarts ==
    {k \in 1..Len(run_events) :
        run_events[k].op \in {"calc_mean: changed", "calc_mean: unchanged"}}

\* the calls for one chromosome that begin at position k of the history
BlockAt(k) ==
    LET later == {j \in BlockStarts : j > k}
        last == IF later = {} THEN Len(run_events)
                ELSE (CHOOSE j \in later : \A i \in later : j <= i) - 1
    IN  SubSeq(run_events, k, last)

\* the steps of one chromosome, in the order of the claim
StepsOf(c, changed) ==
    <<RunEvent(IF changed THEN "calc_mean: changed" ELSE "calc_mean: unchanged", c)>>
    \o (IF changed THEN <<RunEvent("save_to_cache", c)>> ELSE <<>>)
    \o <<RunEvent("set_variants_from_cutoffs", c), RunEvent("chunks", c),
         RunEvent("JobCollection", c), RunEvent("dump", c), RunEvent("run", c)>>

IsPrefix(a, b) == Len(a) <= Len(b) /\ a = SubSeq(b, 1, Len(a))

\* the chromosomes run was asked for: the loaded ones, or the ones given
RequestedChromosomes ==
    IF arguments_chromosome = PyNone
    THEN [c \in vcf_by_chromosome |-> 1]
    ELSE LET tokens == arguments_chromosome.items
             ids == {PyInt(1), PyInt(2), PyStr("X")}
             token(c) == IF c = PyStr("X") THEN "X" ELSE ToString(c.int)
         IN  [c \in {d \in ids : \E i \in 1..Len(tokens) : tokens[i] = token(d)} |->
                Cardinality({i \in 1..Len(tokens) : tokens[i] = token(c)})]

\* C12: run goes through the chromosomes one after the other in canonical
\* order (numeric, then "X"), for the loaded chromosomes and for chromosomes
\* given in any order: the calls of the history fall into one block per
\* chromosome, each block is the steps calc_mean, save_to_cache exactly when
\* the statistics changed, set_variants_from_cutoffs, the chunks, the job
\* collection, its dump, its run, in this order; only the last block can be
\* cut short (run has not got further, or has raised), so no chromosome
\* begins before the run of the one before has returned; when run returns
\* every requested chromosome has had all its steps.
C12_ChromosomesInCanonicalOrder ==
    /\ run_events # <<>> => 1 \in BlockStarts
    /\ \A k \in BlockStarts :
          LET block == BlockAt(k)
              c == block[1].chromosome
              steps == StepsOf(c, block[1].op = "calc_mean: changed")
          IN  /\ IsPrefix(block, steps)
              /\ (\E j \in BlockStarts : j > k) => block = steps
              /\ \A j \in BlockStarts :
                    j > k => CanonicalRank(c) <= CanonicalRank(run_events[j].chromosome)
              /\ (arguments_chromosome = PyNone) =>
                    \A j \in BlockStarts :
                       j > k => CanonicalRank(c) < CanonicalRank(run_events[j].chromosome)
    /\ run_pc = "done" =>
          /\ \A k \in BlockStarts : Len(BlockAt(k)) = Len(StepsOf(BlockAt(k)[1].chromosome,
                                            BlockAt(k)[1].op = "calc_mean: changed"))
          /\ \A c \in {PyInt(1), PyInt(2), PyStr("X")} :
                Cardinality({k \in BlockStarts : run_events[k].chromosome = c})
                   = (IF c \in DOMAIN RequestedChromosomes
                      THEN RequestedChromosomes[c] ELSE 0)

\* C12 witness: run has returned after the chromosomes "X" and 1 were given
\* in this order; chromosome 1, whose statistics changed, came first with
\* the save of its VCF cache, chromosome "X" second without one
C12_Witness ==
    /\ run_pc = "done"
    /\ arguments_chromosome = PyList(<<"X", "1">>)
    /\ run_events = StepsOf(PyInt(1), TRUE) \o StepsOf(PyStr("X"), FALSE)

(***************************************************************************)
(* Claims about the chunks as a partition (SpecRun)                        *)
(***************************************************************************)
\* the places (chunk, position) of the chunk list that hold a collection
ChunkPlacesOf(vc) ==
    {<<c, i>> \in (1..Len(chunks)) \X (1..Len(variable_collections)) :
        i <= Len(chunks[c]) /\ chunks[c][i] = vc}

\* the chunk list handed to the job collection is a partition of
\* self.variable_collections, and only its final chunk can be empty
ChunksArePartition ==
    run_pc = "job" =>
       /\ Len(Flatten(chunks)) = Len(variable_collections)
       /\ \A i \in 1..Len(variable_collections) :
             Cardinality(ChunkPlacesOf(variable_collections[i])) = 1
       /\ \A c \in 1..(Len(chunks) - 1) : chunks[c] # <<>>
       /\ chunks # <<>>

\* C13: for every chromosome whose chunking completes, each element of
\* self.variable_collections is in exactly one chunk of the chunk list, none
\* lost and none twice, and only the final chunk can be empty; no step of
\* run changes self.variable_collections, so the list is the same, in the
\* same order, after the chunking of a chromosome as before it and every
\* job collection covers all variable collections.
C13_ChunksPartitionAndFrame ==
    /\ []ChunksArePartition
    /\ [][variable_collections' = variable_collections]_vars

\* C13 witness: the chunks of a second chromosome are complete, three
\* collections are spread over more than one chunk, and the list of the
\* command still holds the three
C13_Witness ==
    /\ run_pc = "job"
    /\ \E k \in 1..Len(run_events) : run_events[k].op = "run"
    /\ Len(variable_collections) = 3
    /\ Len(chunks) >= 2
    /\ chunks[1] # <<>>
    /\ chunks[Len(chunks)] = <<>>

=============================================================================
